---- MODULE Spec2Model ----
(***************************************************************************)
(* Model of the trixel service client (src/src/trixelserviceclient.py):    *)
(* the negotiation -> resolution -> synchronisation pipeline of Client and *)
(* the calls run, set_location, set_k and delete built on it.              *)
(*                                                                         *)
(* A call is a coroutine.  It runs without interruption from one await to  *)
(* the next, so one action of the model is: the awaited request is         *)
(* answered, and the coroutine runs on until it issues its next request or *)
(* returns.  The request a suspended coroutine waits for is the last entry *)
(* of its log, with rsp = Pending.                                         *)
(***************************************************************************)
EXTENDS Integers, Sequences, FiniteSets, TLC

(* ------------------------------ bounds -------------------------------- *)

\* Greatest k anonymity requirement tried.
MaxK == 2

\* Number of calls made on the client in one behaviour.
MaxCalls == 4

\* Number of calls in one behaviour of SpecConc, where calls overlap.
MaxConcCalls == 3

\* Number of calls in one behaviour of SpecTwo, made on two clients.
MaxTwoCalls == 3

\* Number of levels, from level 0 on, at which the sensor counts of SpecNeg
\* are chosen freely; the deeper levels share one count.
TableDepth == 2

\* Locations the station is moved between, anonymity requirements, the ids
\* of the trixel management servers (TMS) the lookup service may name, and
\* the coroutines that may be in flight at once.
Locations == {"A", "B"}
Ks == 1..MaxK
TmsIds == {7, 9}
Tasks == {"t1", "t2"}
MainTask == "t1"

\* The Client objects of the process: the one the calls of Spec, SpecConc
\* and SpecNeg are made on, and a second one.
Clients == {"c1", "c2"}
MainClient == "c1"
OtherClient == "c2"

\* The sensor counts the lookup service reports for a trixel in SpecNeg.
Counts == {0, 1, 2}

(* ------------------------- program constants -------------------------- *)

\* for level in range(0, 20)
NumLevels == 20

\* types = [AMBIENT_TEMPERATURE, RELATIVE_HUMIDITY], in list order.
Types == <<"ambient_temperature", "relative_humidity">>
TypeSet == {Types[i] : i \in 1..Len(Types)}

(* ------------------------ external collaborators ---------------------- *)

\* pynyhtm: the id of the trixel that holds a location at a level names the
\* root trixel and then one child per level.  It is modelled as that path:
\* the trixel of level n+1 extends the trixel of level n by one child.
\* A and B lie in the same root trixel and in different children of it.
HtmPath(loc) == [i \in 1..NumLevels |->
                   IF i = 1 THEN 8 ELSE IF loc = "A" THEN 0 ELSE 1]

get_htm_id(loc, level) == SubSeq(HtmPath(loc), 1, level + 1)

get_level(trixel_id) == Len(trixel_id) - 1

NoTrixel == << >>

\* The sensor population the lookup service reports in the behaviours of
\* Spec and SpecConc, per location and type: the counts of the levels 0, 1,
\* ... in head, and the count of every deeper level in tail.  It thins out
\* with the level, at A and at B differently, and differently for the two
\* types.
Population ==
    [loc \in Locations |-> [ty \in TypeSet |->
        IF loc = "A"
        THEN IF ty = "ambient_temperature"
             THEN [head |-> <<3, 2, 1>>, tail |-> 0]
             ELSE [head |-> <<2, 1>>, tail |-> 0]
        ELSE IF ty = "ambient_temperature"
             THEN [head |-> <<3, 1, 1>>, tail |-> 0]
             ELSE [head |-> <<1>>, tail |-> 0]]]

(* ------------------------------- state -------------------------------- *)

VARIABLES
    location,        \* self._config.location
    k,               \* self._config.k
    ms_config,       \* self._config.ms_config: 0 is None, else the token
    ready,           \* Client._ready
    dead,            \* Client._dead
    trixel_lookup,   \* self._trixel_lookup: type -> trixel id
    tms_lookup,      \* Client._tms_lookup: dict in insertion order
    persisted,       \* what the persistence callback was last handed
    other,           \* the attributes the second Client object has of its own
    tms_stations,    \* the TMS: k requirement per token issued, 0 = deleted
    sensor_counts,   \* the lookup service: sensors per location, type, level
    tasks,           \* the coroutines: locals, position, log of the call
    calls,           \* number of calls made so far
    hist             \* history of the calls, read by the properties only

vars == <<location, k, ms_config, ready, dead, trixel_lookup, tms_lookup,
          persisted, other, tms_stations, sensor_counts, tasks, calls, hist>>

\* get_sensor_count: what the lookup service answers for the trixel of a
\* location at a level, for one type.
SensorCount(loc, type, level) ==
    LET counts == sensor_counts[loc][type]
    IN  IF level < Len(counts.head) THEN counts.head[level + 1]
        ELSE counts.tail

\* Responses: Pending while awaited, Failed for a status that is not the
\* expected one, else the payload.
Pending == -1
Failed == -2

NoConfig == [location |-> "none", k |-> 0, ms_config |-> 0]

IdleTask == [op |-> "idle", pc |-> "idle", inst |-> MainClient,
             arg_location |-> "none",
             arg_k |-> 0, old_location |-> "none", old_k |-> 0,
             rerun |-> FALSE, ready0 |-> FALSE, persisted0 |-> "none",
             trixel_lookup0 |-> [ty \in TypeSet |-> NoTrixel],
             tms_lookup0 |-> << >>,
             solo |-> TRUE,
             sc |-> "none", level |-> 0,
             trixels |-> [ty \in TypeSet |-> NoTrixel],
             iter |-> << >>, idx |-> 0, ping_pos |-> 0, ping_size |-> 0,
             checked_tms_ids |-> {}, token |-> 0,
             stage |-> "none", exc |-> "none", result |-> "none",
             log |-> << >>]

\* The second Client object as constructed, for a station at B that has
\* never registered.  _ready, _dead and _tms_lookup are attributes of the
\* class, bound once to one Event, one Event and one dict, and __init__
\* binds none of them on the object: both objects read the same ones.
\* _trixel_lookup is bound on an object by its first negotiation.
SecondClient ==
    [location |-> "B", k |-> 1, ms_config |-> 0,
     trixel_lookup |-> [ty \in TypeSet |-> NoTrixel],
     persisted |-> NoConfig]

\* The client as constructed from a configuration: one of a station that
\* has never registered, or one that holds the credentials of a station the
\* TMS knows, under the configured k requirement or another.
InitClient ==
    /\ location \in Locations
    /\ k \in Ks
    /\ \/ ms_config = 0 /\ tms_stations = << >>
       \/ ms_config = 1 /\ \E remote_k \in Ks : tms_stations = <<remote_k>>
    /\ ready = FALSE
    /\ dead = FALSE
    /\ trixel_lookup = [ty \in TypeSet |-> NoTrixel]
    /\ tms_lookup = << >>
    /\ persisted = NoConfig
    /\ other = SecondClient
    /\ tasks = [t \in Tasks |-> IdleTask]
    /\ calls = 0
    /\ hist = [failed |-> {}, unvetted |-> {}, start_failed |-> FALSE,
               start_failed_unready |-> FALSE]

Init == InitClient /\ sensor_counts = Population

(* ------------------- one coroutine's view of the state ---------------- *)

\* The state as a coroutine t of the client c sees it: the client's fields,
\* the TMS, and its own locals in tk.  The operators below are the code of
\* Client, each taking such a state to the state at its next await or at
\* its end.
View(c, t) ==
    [location |-> IF c = MainClient THEN location ELSE other.location,
     k |-> IF c = MainClient THEN k ELSE other.k,
     ms_config |-> IF c = MainClient THEN ms_config ELSE other.ms_config,
     trixel_lookup |-> IF c = MainClient THEN trixel_lookup
                       ELSE other.trixel_lookup,
     persisted |-> IF c = MainClient THEN persisted ELSE other.persisted,
     ready |-> ready, dead |-> dead, tms_lookup |-> tms_lookup,
     tms_stations |-> tms_stations, hist |-> hist, tk |-> tasks[t]]

Cur(t) == View(tasks[t].inst, t)

InFlight(u) == tasks[u].pc \notin {"idle", "done"}

AllIdle == \A u \in Tasks : tasks[u].pc = "idle"

\* await: the request is issued and the coroutine is suspended on it.
Issue(s, ev, req) ==
    [s EXCEPT !.tk.pc = ev,
              !.tk.log = Append(@, [ev |-> ev, req |-> req, rsp |-> Pending])]

\* The awaited request is answered.
Answer(s, rsp) == [s EXCEPT !.tk.log[Len(s.tk.log)].rsp = rsp]

\* Something the coroutine did that is no request.
Note(s, ev, req, rsp) ==
    [s EXCEPT !.tk.log = Append(@, [ev |-> ev, req |-> req, rsp |-> rsp])]

Raise(s, e) == [s EXCEPT !.tk.exc = e]

Raised(s) == s.tk.exc # "none"

ReturnValue(s, v) == [s EXCEPT !.tk.pc = "done", !.tk.result = v]

(* ------------------------------ Client -------------------------------- *)

\* persist_config: hands the configuration to the user's callback, which
\* may raise.
persist_config(s, fails) ==
    LET handed == [s EXCEPT !.persisted = [location |-> s.location, k |-> s.k,
                                           ms_config |-> s.ms_config]]
    IN  Note(IF fails THEN Raise(handed, "PersistError") ELSE handed,
             "persist", s.ms_config, IF fails THEN Failed ELSE 1)

\* run, after sync_all_tms: self._ready.set().
run_tail(s) ==
    ReturnValue([s EXCEPT !.ready = TRUE,
                          !.hist.start_failed = FALSE,
                          !.hist.start_failed_unready = FALSE], "None")

\* set_location, after update_responsible_tms: persist, set Ready, True.
set_location_tail(s, pf) ==
    LET p == persist_config([s EXCEPT !.tk.stage = "persist"], pf)
    IN  IF Raised(p) THEN p
        ELSE ReturnValue([p EXCEPT !.ready = TRUE], "True")

\* set_k, after sync_all_tms: persist, set Ready; the function ends
\* without a return statement.
set_k_tail(s, pf) ==
    LET p == persist_config([s EXCEPT !.tk.stage = "persist"], pf)
    IN  IF Raised(p) THEN p
        ELSE ReturnValue([p EXCEPT !.ready = TRUE], "None")

after_sync(s, pf) ==
    IF s.tk.op = "run" THEN run_tail(s) ELSE set_k_tail(s, pf)

\* sync_all_tms and the head of sync_with_tms, up to the first request.
\* next(iter(...)) on an empty dict raises StopIteration, which leaves a
\* coroutine as a RuntimeError.
sync_all_tms(s) ==
    LET e == [s EXCEPT !.tk.stage = "sync"]
    IN  IF s.tms_lookup = << >> THEN Raise(e, "RuntimeError")
        ELSE LET n == Note(e, "sync", s.ms_config, 1)
             IN  IF s.ms_config = 0
                 THEN Issue(n, "register", s.k)
                 ELSE Issue([n EXCEPT !.tk.token = s.ms_config],
                            "detail", s.ms_config)

\* The resolution has succeeded: the caller goes on.
after_resolve(s, pf) ==
    LET v == [s EXCEPT !.hist.failed = @ \ {s.tk.sc},
                       !.hist.unvetted = @ \ {s.tk.sc}]
    IN  IF s.tk.op = "run" THEN sync_all_tms(v)
        ELSE set_location_tail(v, pf)

\* The second loop of update_responsible_tms: one ping per TMS id not yet
\* checked, over the entries of self._tms_lookup from position pos on.
NextPing(lookup, pos, checked) ==
    LET todo == {i \in pos..Len(lookup) : lookup[i].id \notin checked}
    IN  IF todo = {} THEN 0
        ELSE CHOOSE i \in todo : \A j \in todo : i <= j

ping_loop(s, pos, pf) ==
    LET i == NextPing(s.tms_lookup, pos, s.tk.checked_tms_ids)
    IN  IF i = 0 THEN after_resolve(s, pf)
        ELSE Issue([s EXCEPT !.tk.ping_pos = i,
                             !.tk.ping_size = Len(s.tms_lookup),
                             !.tk.checked_tms_ids = @ \cup {s.tms_lookup[i].id}],
                   "ping", s.tms_lookup[i].id)

\* tms_get_ping is answered.  The for loop then asks the dict iterator for
\* its next item, which raises RuntimeError when the dict has grown.
on_ping(s0, ok, pf) ==
    LET s == Answer(s0, IF ok THEN 1 ELSE Failed)
    IN  IF ~ok THEN Raise(s, "RuntimeError")
        ELSE IF Len(s.tms_lookup) # s.tk.ping_size THEN Raise(s, "RuntimeError")
        ELSE ping_loop(s, s.tk.ping_pos + 1, pf)

\* self._tms_lookup[trixel_id] = TMSInfo(...): a dict keeps the place of a
\* key it already holds.
DictSet(lookup, trixel_id, id) ==
    IF \E i \in 1..Len(lookup) : lookup[i].trixel_id = trixel_id
    THEN [i \in 1..Len(lookup) |->
            IF lookup[i].trixel_id = trixel_id
            THEN [trixel_id |-> trixel_id, id |-> id] ELSE lookup[i]]
    ELSE Append(lookup, [trixel_id |-> trixel_id, id |-> id])

\* tms_ids = set([x.id for x in self._tms_lookup.values()])
KnownTmsIds(lookup) == {lookup[i].id : i \in 1..Len(lookup)}

\* The check of a retrieved TMS against the table.
SingleTmsViolated(lookup, id) ==
    KnownTmsIds(lookup) # {} /\ id \notin KnownTmsIds(lookup)

\* get_tms_from_trixel is answered for the trixel at s.tk.idx: rsp is
\* Failed (status not OK), 0 (parsed is None) or the id of the TMS.
on_get_tms(s0, rsp, pf) ==
    LET s == Answer(s0, rsp)
        trixel_id == s.tk.iter[s.tk.idx]
    IN  IF rsp = Failed \/ rsp = 0 THEN Raise(s, "RuntimeError")
        ELSE IF SingleTmsViolated(s.tms_lookup, rsp)
        THEN Raise(s, "NotImplementedError")
        ELSE LET r == Note([s EXCEPT !.tms_lookup = DictSet(@, trixel_id, rsp)],
                           "store", s.tk.idx, rsp)
             IN  IF s.tk.idx < Len(s.tk.iter)
                 THEN Issue([r EXCEPT !.tk.idx = @ + 1], "get_tms", s.tk.idx + 1)
                 ELSE ping_loop([r EXCEPT !.tk.checked_tms_ids = {}], 1, pf)

\* The head of update_responsible_tms: the loop runs over the values of
\* the dict self._trixel_lookup names when the loop starts.
update_responsible_tms(s) ==
    LET e == [s EXCEPT !.tk.stage = "resolve",
                       !.tk.iter = [i \in 1..Len(Types) |-> s.trixel_lookup[Types[i]]],
                       !.tk.idx = 1]
    IN  Issue(e, "get_tms", 1)

\* TypesMeetingK with the bug of asking for more than k sensors.
TypesMeetingK_strict(loc, level, kreq) ==
    {ty \in TypeSet : SensorCount(loc, ty, level) > kreq}

\* TypesMeetingK with the comparison turned around.
TypesMeetingK_below(loc, level, kreq) ==
    {ty \in TypeSet : SensorCount(loc, ty, level) <= kreq}

\* The types whose count at the level meets the k requirement.
TypesMeetingK(loc, level, kreq) ==
    {ty \in TypeSet : SensorCount(loc, ty, level) >= kreq}

\* WalkEnds with the bug of never leaving the loop early.
WalkEnds_never_early(met, level) == level = NumLevels - 1

\* The walk ends at the first level where no type meets k, and after the
\* last level.
WalkEnds(met, level) == met = {} \/ level = NumLevels - 1

\* on_sensor_count with the bug of taking a failed query for the end of
\* the walk.
on_sensor_count_ignores_status(s0, ok) ==
    LET s == Answer(s0, IF ok THEN 1 ELSE Failed)
        level == s.tk.level
        met == IF ok THEN TypesMeetingK(s.tk.sc, level, s.k) ELSE {}
        trixels == [ty \in TypeSet |->
                      IF ty \in met THEN get_htm_id(s.tk.sc, level)
                      ELSE s.tk.trixels[ty]]
    IN  IF WalkEnds(met, level)
        THEN update_responsible_tms([s EXCEPT !.tk.trixels = trixels,
                                              !.trixel_lookup = trixels])
        ELSE Issue([s EXCEPT !.tk.trixels = trixels, !.tk.level = level + 1],
                   "get_sensor_count", level + 1)

\* get_sensor_count is answered for s.tk.level.
on_sensor_count(s0, ok) ==
    LET s == Answer(s0, IF ok THEN 1 ELSE Failed)
        level == s.tk.level
        met == TypesMeetingK(s.tk.sc, level, s.k)
        trixels == [ty \in TypeSet |->
                      IF ty \in met THEN get_htm_id(s.tk.sc, level)
                      ELSE s.tk.trixels[ty]]
    IN  IF ~ok THEN Raise(s, "RuntimeError")
        ELSE IF WalkEnds(met, level)
        THEN update_responsible_tms([s EXCEPT !.tk.trixels = trixels,
                                              !.trixel_lookup = trixels])
        ELSE Issue([s EXCEPT !.tk.trixels = trixels, !.tk.level = level + 1],
                   "get_sensor_count", level + 1)

\* The loop of tls_negotiate_trixel_ids from a level on, with every query
\* answered OK: the assignment it ends with.
RECURSIVE WalkFrom(_, _, _, _)
WalkFrom(loc, kreq, level, trixels0) ==
    LET met == TypesMeetingK(loc, level, kreq)
        trixels == [ty \in TypeSet |->
                      IF ty \in met THEN get_htm_id(loc, level)
                      ELSE trixels0[ty]]
    IN  IF WalkEnds(met, level) THEN trixels
        ELSE WalkFrom(loc, kreq, level + 1, trixels)

\* The assignment a negotiation at loc under the requirement kreq ends
\* with.
Negotiated(loc, kreq) ==
    WalkFrom(loc, kreq, 0, [ty \in TypeSet |-> get_htm_id(loc, 0)])

\* The head of tls_negotiate_trixel_ids.
tls_negotiate_trixel_ids(s) ==
    LET e == [s EXCEPT !.tk.stage = "negotiate",
                       !.tk.sc = s.location,
                       !.tk.trixels = [ty \in TypeSet |-> get_htm_id(s.location, 0)],
                       !.tk.level = 0]
    IN  Issue(e, "get_sensor_count", 0)

\* The TMS: its answers to a request made with a token.
StationExists(stations, token) ==
    token \in 1..Len(stations) /\ stations[token] # 0

\* on_register with the bug of asking for the station's detail without
\* persisting the credentials first.
on_register_unpersisted(s0, rsp, pf) ==
    LET s == Answer(s0, rsp)
    IN  IF rsp = Failed THEN Raise(s, "RuntimeError")
        ELSE IF rsp # s.k THEN Raise(s, "RuntimeError")
        ELSE LET c == [s EXCEPT !.tms_stations = Append(@, rsp)]
                 p == [c EXCEPT !.ms_config = Len(c.tms_stations)]
             IN  Issue([p EXCEPT !.tk.token = p.ms_config],
                       "detail", p.ms_config)

\* tms_register_station is answered: rsp is Failed or the k requirement of
\* the station the TMS created.  register_at_tms checks it, sync_with_tms
\* stores and persists the credentials and asks for the station's detail.
\* A station whose credentials register_at_tms discards is never named in
\* a request again and is left out of tms_stations.
on_register(s0, rsp, pf) ==
    LET s == Answer(s0, rsp)
    IN  IF rsp = Failed THEN Raise(s, "RuntimeError")
        ELSE IF rsp # s.k THEN Raise(s, "RuntimeError")
        ELSE LET c == [s EXCEPT !.tms_stations = Append(@, rsp)]
                 p == persist_config([c EXCEPT !.ms_config = Len(c.tms_stations)], pf)
             IN  IF Raised(p) THEN p
                 ELSE Issue([p EXCEPT !.tk.token = p.ms_config],
                            "detail", p.ms_config)

\* on_detail with the bug of updating the station whatever its detail says.
on_detail_always_updates(s0, rsp, pf) ==
    LET s == Answer(s0, rsp)
    IN  IF rsp = Failed THEN Raise(s, "RuntimeError")
        ELSE IF s.ms_config = 0 THEN Raise(s, "AttributeError")
        ELSE Issue([s EXCEPT !.tk.token = s.ms_config], "update", s.k)

\* tms_get_station_detail is answered: rsp is Failed or the k requirement
\* the TMS holds for the station.
on_detail(s0, rsp, pf) ==
    LET s == Answer(s0, rsp)
    IN  IF rsp = Failed THEN Raise(s, "RuntimeError")
        ELSE IF rsp # s.k
        THEN IF s.ms_config = 0 THEN Raise(s, "AttributeError")
             ELSE Issue([s EXCEPT !.tk.token = s.ms_config], "update", s.k)
        ELSE after_sync(s, pf)

\* tms_update_station is answered: rsp is Failed or the k requirement the
\* TMS now holds for the station.
on_update(s0, rsp, pf) ==
    LET s == Answer(s0, rsp)
    IN  IF rsp = Failed THEN Raise(s, "RuntimeError")
        ELSE LET u == [s EXCEPT !.tms_stations[s.tk.token] = rsp]
             IN  IF rsp # u.k THEN Raise(u, "RuntimeError")
                 ELSE after_sync(u, pf)

\* on_delete with the bug of setting Dead before the cleared configuration
\* is handed to the callback.
on_delete_dead_first(s0, ok, pf) ==
    LET s == Answer(s0, IF ok THEN 1 ELSE Failed)
    IN  IF ~ok THEN Raise(s, "RuntimeError")
        ELSE LET p == persist_config([s EXCEPT !.tms_stations[s.tk.token] = 0,
                                               !.ms_config = 0,
                                               !.dead = TRUE], pf)
             IN  IF Raised(p) THEN p ELSE ReturnValue(p, "None")

\* tms_delete_station is answered.
on_delete(s0, ok, pf) ==
    LET s == Answer(s0, IF ok THEN 1 ELSE Failed)
    IN  IF ~ok THEN Raise(s, "RuntimeError")
        ELSE LET p == persist_config([s EXCEPT !.tms_stations[s.tk.token] = 0,
                                               !.ms_config = 0], pf)
             IN  IF Raised(p) THEN p
                 ELSE ReturnValue([p EXCEPT !.dead = TRUE], "None")

\* A call made now on the client whose state is s: its locals.
NewTask(s, op) ==
    [IdleTask EXCEPT !.op = op,
                     !.ready0 = IF op = "run" THEN s.ready ELSE FALSE,
                     !.persisted0 = IF op = "set_location"
                                    THEN s.persisted.location ELSE "none",
                     !.trixel_lookup0 =
                         IF op \in {"set_location", "set_k"}
                            /\ s.ready /\ ~s.dead
                         THEN s.trixel_lookup ELSE @,
                     !.tms_lookup0 =
                         IF op = "set_location" /\ s.ready /\ ~s.dead
                         THEN s.tms_lookup ELSE @,
                     !.solo = \A u \in Tasks : ~InFlight(u)]

\* run with the bug of setting Ready before the pipeline has run.
run_ready_first(s) ==
    tls_negotiate_trixel_ids([s EXCEPT !.dead = FALSE, !.ready = TRUE])

\* run, up to its first request.
run(s) == tls_negotiate_trixel_ids([s EXCEPT !.dead = FALSE])

\* set_location with the bug of persisting the new location before it is
\* negotiated and resolved.
set_location_persists_first(s0, loc, pf) ==
    LET s == [s0 EXCEPT !.tk.arg_location = loc,
                        !.tk.old_location = s0.location,
                        !.location = loc]
        p == persist_config([s EXCEPT !.tk.stage = "persist",
                                      !.hist.unvetted =
                                          IF ~s.dead /\ s.ready
                                          THEN @ ELSE @ \ {loc}], pf)
    IN  IF Raised(p) THEN p
        ELSE IF ~s.dead /\ s.ready
        THEN tls_negotiate_trixel_ids([p EXCEPT !.ready = FALSE,
                                                !.tk.rerun = TRUE])
        ELSE ReturnValue(p, "True")

\* set_location, up to its first request or its end.
set_location(s0, loc, pf) ==
    LET s == [s0 EXCEPT !.tk.arg_location = loc,
                        !.tk.old_location = s0.location,
                        !.location = loc]
    IN  IF ~s.dead /\ s.ready
        THEN tls_negotiate_trixel_ids([s EXCEPT !.ready = FALSE,
                                                !.tk.rerun = TRUE])
        ELSE LET p == persist_config([s EXCEPT !.tk.stage = "persist",
                                               !.hist.unvetted = @ \ {loc}], pf)
             IN  IF Raised(p) THEN p ELSE ReturnValue(p, "True")

\* set_k with the bug of leaving Ready set while it synchronises.
set_k_keeps_ready(s0, newk, pf) ==
    LET s == [s0 EXCEPT !.tk.arg_k = newk, !.tk.old_k = s0.k, !.k = newk]
    IN  IF ~s.dead /\ s.ready
        THEN sync_all_tms([s EXCEPT !.tk.rerun = TRUE])
        ELSE LET p == persist_config([s EXCEPT !.tk.stage = "persist"], pf)
             IN  IF Raised(p) THEN p ELSE ReturnValue(p, "None")

\* set_k with the change of negotiating the trixels again for the new k.
set_k_renegotiates(s0, newk, pf) ==
    LET s == [s0 EXCEPT !.tk.arg_k = newk, !.tk.old_k = s0.k, !.k = newk]
    IN  IF ~s.dead /\ s.ready
        THEN tls_negotiate_trixel_ids([s EXCEPT !.ready = FALSE,
                                                !.tk.rerun = TRUE])
        ELSE LET p == persist_config([s EXCEPT !.tk.stage = "persist"], pf)
             IN  IF Raised(p) THEN p ELSE ReturnValue(p, "None")

\* set_k, up to its first request or its end.
set_k(s0, newk, pf) ==
    LET s == [s0 EXCEPT !.tk.arg_k = newk, !.tk.old_k = s0.k, !.k = newk]
    IN  IF ~s.dead /\ s.ready
        THEN sync_all_tms([s EXCEPT !.ready = FALSE, !.tk.rerun = TRUE])
        ELSE LET p == persist_config([s EXCEPT !.tk.stage = "persist"], pf)
             IN  IF Raised(p) THEN p ELSE ReturnValue(p, "None")

\* delete, up to its request.
delete(s) ==
    LET e == [s EXCEPT !.tk.stage = "delete"]
    IN  IF s.tms_lookup = << >> THEN Raise(e, "RuntimeError")
        ELSE IF s.ms_config = 0 THEN Raise(e, "AttributeError")
        ELSE Issue([e EXCEPT !.tk.token = s.ms_config], "delete", s.ms_config)

\* Land with the bug of set_location not restoring the old location.
Land_keeps_location(s) ==
    IF ~Raised(s) THEN s
    ELSE IF s.tk.op = "set_location" THEN ReturnValue(s, "False")
    ELSE IF s.tk.op = "set_k"
    THEN ReturnValue([s EXCEPT !.k = s.tk.old_k], "False")
    ELSE ReturnValue(s, "raised")

\* Land with the bug of set_k not restoring the old k.
Land_keeps_k(s) ==
    IF ~Raised(s) THEN s
    ELSE IF s.tk.op = "set_location"
    THEN ReturnValue([s EXCEPT !.location = s.tk.old_location], "False")
    ELSE IF s.tk.op = "set_k" THEN ReturnValue(s, "False")
    ELSE ReturnValue(s, "raised")

\* Where an exception ends: set_location and set_k catch it, restore the
\* old value and return False; run and delete let it reach their caller.
Land(s) ==
    IF ~Raised(s) THEN s
    ELSE IF s.tk.op = "set_location"
    THEN LET vetting == s.tk.stage \in {"negotiate", "resolve"}
         IN  ReturnValue(
                 [s EXCEPT !.location = s.tk.old_location,
                           !.hist.failed =
                               IF vetting THEN @ \cup {s.tk.arg_location} ELSE @,
                           !.hist.unvetted =
                               IF /\ vetting
                                  /\ s.tk.arg_location # s.tk.old_location
                                  /\ s.tk.arg_location # s.tk.persisted0
                               THEN @ \cup {s.tk.arg_location} ELSE @],
                 "False")
    ELSE IF s.tk.op = "set_k"
    THEN ReturnValue([s EXCEPT !.k = s.tk.old_k], "False")
    ELSE IF s.tk.op = "run"
    THEN ReturnValue(
             [s EXCEPT !.hist.start_failed = TRUE,
                       !.hist.start_failed_unready = @ \/ ~s.tk.ready0],
             "raised")
    ELSE ReturnValue(s, "raised")

(* ------------------------------ actions ------------------------------- *)

\* The coroutine t has run from s0 to s.
Commit(t, s) ==
    /\ IF s.tk.inst = MainClient
       THEN /\ location' = s.location
            /\ k' = s.k
            /\ ms_config' = s.ms_config
            /\ trixel_lookup' = s.trixel_lookup
            /\ persisted' = s.persisted
            /\ UNCHANGED other
       ELSE /\ other' = [location |-> s.location, k |-> s.k,
                         ms_config |-> s.ms_config,
                         trixel_lookup |-> s.trixel_lookup,
                         persisted |-> s.persisted]
            /\ UNCHANGED <<location, k, ms_config, trixel_lookup, persisted>>
    /\ ready' = s.ready
    /\ dead' = s.dead
    /\ tms_lookup' = s.tms_lookup
    /\ tms_stations' = s.tms_stations
    /\ UNCHANGED sensor_counts
    /\ hist' = s.hist
    /\ tasks' = [u \in Tasks |->
                   IF u = t THEN s.tk
                   ELSE IF tasks[t].pc = "idle" /\ InFlight(u)
                   THEN [tasks[u] EXCEPT !.solo = FALSE]
                   ELSE tasks[u]]

\* In the actions below the inputs of a step are the arguments of the
\* call or the answer to the request, and whether the persistence callback
\* raises if the step invokes it; the step goes to one of the states the
\* code reaches under them.

\* A call begins on the client c, on the idle coroutine t.
CalledOn(c, t, op) ==
    LET s == View(c, t)
    IN  [s EXCEPT !.tk = [NewTask(s, op) EXCEPT !.inst = c]]

Called(t, op) == CalledOn(MainClient, t, op)

CallRun(t) ==
    /\ tasks[t].pc = "idle"
    /\ calls' = calls + 1
    /\ Commit(t, Land(run(Called(t, "run"))))

CallSetLocation(t) ==
    /\ tasks[t].pc = "idle"
    /\ calls' = calls + 1
    /\ \E s \in {Land(set_location(Called(t, "set_location"), loc, pf)) :
                   loc \in Locations, pf \in BOOLEAN} :
          Commit(t, s)

CallSetK(t) ==
    /\ tasks[t].pc = "idle"
    /\ calls' = calls + 1
    /\ \E s \in {Land(set_k(Called(t, "set_k"), newk, pf)) :
                   newk \in Ks, pf \in BOOLEAN} :
          Commit(t, s)

CallDelete(t) ==
    /\ tasks[t].pc = "idle"
    /\ calls' = calls + 1
    /\ Commit(t, Land(delete(Called(t, "delete"))))

SensorCountResp(t) ==
    /\ tasks[t].pc = "get_sensor_count"
    /\ UNCHANGED calls
    /\ \E ok \in BOOLEAN :
          Commit(t, Land(on_sensor_count(Cur(t), ok)))

GetTmsResp(t) ==
    /\ tasks[t].pc = "get_tms"
    /\ UNCHANGED calls
    /\ \E s \in {Land(on_get_tms(Cur(t), rsp, pf)) :
                   rsp \in {Failed, 0} \cup TmsIds, pf \in BOOLEAN} :
          Commit(t, s)

PingResp(t) ==
    /\ tasks[t].pc = "ping"
    /\ UNCHANGED calls
    /\ \E s \in {Land(on_ping(Cur(t), ok, pf)) :
                   ok \in BOOLEAN, pf \in BOOLEAN} :
          Commit(t, s)

RegisterResp(t) ==
    /\ tasks[t].pc = "register"
    /\ UNCHANGED calls
    /\ \E s \in {Land(on_register(Cur(t), rsp, pf)) :
                   rsp \in {Failed} \cup Ks, pf \in BOOLEAN} :
          Commit(t, s)

DetailResp(t) ==
    /\ tasks[t].pc = "detail"
    /\ UNCHANGED calls
    /\ \E s \in {Land(on_detail(Cur(t), rsp, pf)) :
                   rsp \in {Failed} \cup
                           (IF StationExists(tms_stations, tasks[t].token)
                            THEN {tms_stations[tasks[t].token]} ELSE {}),
                   pf \in BOOLEAN} :
          Commit(t, s)

UpdateResp(t) ==
    /\ tasks[t].pc = "update"
    /\ UNCHANGED calls
    /\ \E s \in {Land(on_update(Cur(t), rsp, pf)) :
                   rsp \in {Failed} \cup
                           (IF StationExists(tms_stations, tasks[t].token)
                            THEN Ks ELSE {}),
                   pf \in BOOLEAN} :
          Commit(t, s)

DeleteResp(t) ==
    /\ tasks[t].pc = "delete"
    /\ UNCHANGED calls
    /\ \E s \in {Land(on_delete(Cur(t), ok, pf)) :
                   ok \in {FALSE} \cup
                          (IF StationExists(tms_stations, tasks[t].token)
                           THEN {TRUE} ELSE {}),
                   pf \in BOOLEAN} :
          Commit(t, s)

\* The calls on the second Client object.
CallRunOther(t) ==
    /\ tasks[t].pc = "idle"
    /\ calls' = calls + 1
    /\ Commit(t, Land(run(CalledOn(OtherClient, t, "run"))))

CallSetLocationOther(t) ==
    /\ tasks[t].pc = "idle"
    /\ calls' = calls + 1
    /\ \E s \in {Land(set_location(CalledOn(OtherClient, t, "set_location"),
                                      loc, pf)) :
                   loc \in Locations, pf \in BOOLEAN} :
          Commit(t, s)

CallSetKOther(t) ==
    /\ tasks[t].pc = "idle"
    /\ calls' = calls + 1
    /\ \E s \in {Land(set_k(CalledOn(OtherClient, t, "set_k"), newk, pf)) :
                   newk \in Ks, pf \in BOOLEAN} :
          Commit(t, s)

CallDeleteOther(t) ==
    /\ tasks[t].pc = "idle"
    /\ calls' = calls + 1
    /\ Commit(t, Land(delete(CalledOn(OtherClient, t, "delete"))))

\* The caller has the result of the call; the coroutine is gone.
Returned(t) ==
    /\ tasks[t].pc = "done"
    /\ tasks' = [tasks EXCEPT ![t] = IdleTask]
    /\ UNCHANGED <<location, k, ms_config, ready, dead, trixel_lookup,
                   tms_lookup, persisted, other, tms_stations, sensor_counts,
                   calls, hist>>

\* The calls on the client are made one after the other.
Next ==
    \/ AllIdle /\ calls < MaxCalls /\ CallRun(MainTask)
    \/ AllIdle /\ calls < MaxCalls /\ CallSetLocation(MainTask)
    \/ AllIdle /\ calls < MaxCalls /\ CallSetK(MainTask)
    \/ AllIdle /\ calls < MaxCalls /\ CallDelete(MainTask)
    \/ \E t \in Tasks : SensorCountResp(t)
    \/ \E t \in Tasks : GetTmsResp(t)
    \/ \E t \in Tasks : PingResp(t)
    \/ \E t \in Tasks : RegisterResp(t)
    \/ \E t \in Tasks : DetailResp(t)
    \/ \E t \in Tasks : UpdateResp(t)
    \/ \E t \in Tasks : DeleteResp(t)
    \/ \E t \in Tasks : Returned(t)

Spec == Init /\ [][Next]_vars

\* A call that has ended hands its result to its caller at once.
NoneDone == \A u \in Tasks : tasks[u].pc # "done"

\* The coroutine a new call runs on: the main one when it is idle, else
\* another idle one.
FreeTask(t) ==
    /\ NoneDone
    /\ tasks[t].pc = "idle"
    /\ t # MainTask => tasks[MainTask].pc # "idle"

\* The calls run, set_location and set_k overlap: a call may begin while
\* another is suspended at a request.
NextConc ==
    \/ \E t \in Tasks : FreeTask(t) /\ calls < MaxConcCalls /\ CallRun(t)
    \/ \E t \in Tasks : FreeTask(t) /\ calls < MaxConcCalls /\ CallSetLocation(t)
    \/ \E t \in Tasks : FreeTask(t) /\ calls < MaxConcCalls /\ CallSetK(t)
    \/ \E t \in Tasks : NoneDone /\ SensorCountResp(t)
    \/ \E t \in Tasks : NoneDone /\ GetTmsResp(t)
    \/ \E t \in Tasks : NoneDone /\ PingResp(t)
    \/ \E t \in Tasks : NoneDone /\ RegisterResp(t)
    \/ \E t \in Tasks : NoneDone /\ DetailResp(t)
    \/ \E t \in Tasks : NoneDone /\ UpdateResp(t)
    \/ \E t \in Tasks : Returned(t)

\* The overlapping calls are followed on a station at A that has never
\* registered.
InitFresh == Init /\ ms_config = 0 /\ location = "A"

SpecConc == InitFresh /\ [][NextConc]_vars

\* The sensor counts of one type along the levels: any counts at the first
\* TableDepth levels, and any one count at all deeper levels.
Profiles == [head : [1..TableDepth -> Counts], tail : Counts]

\* A station at A that has never registered, under any k requirement, and
\* a lookup service with any sensor population around A.
InitNeg ==
    /\ InitClient
    /\ ms_config = 0
    /\ location = "A"
    /\ \E counts \in [TypeSet -> Profiles] :
          sensor_counts = [Population EXCEPT !["A"] = counts]

\* One run call, followed through its negotiation.
NextNeg ==
    \/ AllIdle /\ calls = 0 /\ CallRun(MainTask)
    \/ SensorCountResp(MainTask)
    \/ Returned(MainTask)

SpecNeg == InitNeg /\ [][NextNeg]_vars

\* The calls on two Client objects of one process, made one after the
\* other.
NextTwo ==
    \/ AllIdle /\ calls < MaxTwoCalls /\ CallRun(MainTask)
    \/ AllIdle /\ calls < MaxTwoCalls /\ CallSetLocation(MainTask)
    \/ AllIdle /\ calls < MaxTwoCalls /\ CallSetK(MainTask)
    \/ AllIdle /\ calls < MaxTwoCalls /\ CallDelete(MainTask)
    \/ AllIdle /\ calls < MaxTwoCalls /\ CallRunOther(MainTask)
    \/ AllIdle /\ calls < MaxTwoCalls /\ CallSetLocationOther(MainTask)
    \/ AllIdle /\ calls < MaxTwoCalls /\ CallSetKOther(MainTask)
    \/ AllIdle /\ calls < MaxTwoCalls /\ CallDeleteOther(MainTask)
    \/ SensorCountResp(MainTask)
    \/ GetTmsResp(MainTask)
    \/ PingResp(MainTask)
    \/ RegisterResp(MainTask)
    \/ DetailResp(MainTask)
    \/ UpdateResp(MainTask)
    \/ DeleteResp(MainTask)
    \/ Returned(MainTask)

SpecTwo == InitFresh /\ [][NextTwo]_vars

(* ----------------------------- properties ----------------------------- *)

Done(t) == tasks[t].pc = "done"

\* A call of set_location or set_k that re-runs part of the pipeline: the
\* client was Ready and not Dead when it was made.
Reruns(t, op) == tasks[t].op = op /\ tasks[t].rerun

\* A set_location call that re-ran the pipeline has ended on a failure of
\* the negotiation or of the resolution.
SetLocationFailedVetting(t) ==
    /\ Done(t)
    /\ Reruns(t, "set_location")
    /\ tasks[t].exc # "none"
    /\ tasks[t].stage \in {"negotiate", "resolve"}

Events(t, ev) == {i \in 1..Len(tasks[t].log) : tasks[t].log[i].ev = ev}

\* C1: when a set_location call made on a Ready, not Dead client fails at
\* the negotiation or at the resolution stage, at its return the location
\* is the one before the call, the call has returned False, Ready is
\* cleared and the persistence callback was not invoked during the call.
C1_Rollback ==
    \A t \in Tasks :
        SetLocationFailedVetting(t) =>
            /\ location = tasks[t].old_location
            /\ tasks[t].result = "False"
            /\ ~ready
            /\ Events(t, "persist") = {}

C1_Witness ==
    \E t \in Tasks :
        /\ SetLocationFailedVetting(t)
        /\ tasks[t].stage = "resolve"
        /\ tasks[t].arg_location # tasks[t].old_location

\* C2 as stated: the configuration last handed to the persistence callback
\* never holds a location for which a set_location call failed at the
\* negotiation or the resolution, unless that location has since been
\* negotiated and resolved successfully.
C2_Original ==
    persisted # NoConfig => persisted.location \notin hist.failed

\* C2 as amended: the configuration last handed to the persistence
\* callback never holds a location that a failed set_location call tried
\* to introduce (its negotiation or resolution failed, and it was neither
\* the client's location nor the persisted one before that call), unless
\* that location has since been negotiated and resolved successfully, or
\* has since been stored by a set_location call made while the client was
\* not Ready or was Dead, which persists it without negotiating.
C2_PersistedVetted ==
    persisted # NoConfig => persisted.location \notin hist.unvetted

C2_Witness ==
    /\ persisted # NoConfig
    /\ hist.unvetted # {}
    /\ \E t \in Tasks : SetLocationFailedVetting(t)

\* C3: set_location and set_k return True when the call succeeds and False
\* when a step fails, and raise nothing.
C3_ReturnsTrueOrFalse ==
    \A t \in Tasks :
        Done(t) /\ tasks[t].op \in {"set_location", "set_k"} =>
            /\ tasks[t].result \in {"True", "False"}
            /\ tasks[t].result = "True" <=> tasks[t].exc = "none"

\* C4: whenever Ready is set, credentials are stored and the k requirement
\* the TMS holds for the station is the configured k.
C4_ReadyMeansInSync ==
    ready =>
        /\ ms_config # 0
        /\ StationExists(tms_stations, ms_config)
        /\ tms_stations[ms_config] = k

\* C5 as stated: after a run call has ended with an error, Ready is not
\* set, until a later run call succeeds.
C5_Original == hist.start_failed => ~ready

\* C5 as amended: after a run call made while Ready was not set has ended
\* with an error, Ready is not set, until a later run call succeeds; a run
\* call made while Ready was set leaves it set when it fails.
C5_FailedStartStaysUnready == hist.start_failed_unready => ~ready

C5_Witness ==
    /\ hist.start_failed_unready
    /\ \E t \in Tasks : Done(t) /\ tasks[t].op = "set_location"

\* C6 as stated: Ready is never set while a set_location or set_k call that
\* re-runs part of the pipeline is suspended at a request.
C6_Original ==
    \A t \in Tasks :
        InFlight(t) /\ (Reruns(t, "set_location") \/ Reruns(t, "set_k")) =>
            ~ready

\* C6 as amended: as long as no other call has overlapped it, Ready is not
\* set while a set_location or set_k call that re-runs part of the
\* pipeline is suspended at a request.
C6_UnreadyWhileAlone ==
    \A t \in Tasks :
        /\ InFlight(t)
        /\ Reruns(t, "set_location") \/ Reruns(t, "set_k")
        /\ tasks[t].solo
        => ~ready

C6_Witness ==
    \E t \in Tasks :
        /\ Reruns(t, "set_k")
        /\ tasks[t].solo
        /\ tasks[t].pc = "update"

\* The TMS ids the lookup service has named in the call.
TmsIdsSeen(t) ==
    {tasks[t].log[i].rsp : i \in {j \in Events(t, "get_tms") :
                                     tasks[t].log[j].rsp > 0}}

UnsupportedTopology(t) == Done(t) /\ tasks[t].exc = "NotImplementedError"

\* The lookup service has named different TMS ids for two different
\* trixels of the assignment the call resolves.
TwoTrixelsTwoTms(t) ==
    \E i, j \in Events(t, "get_tms") :
        /\ tasks[t].log[i].rsp > 0
        /\ tasks[t].log[j].rsp > 0
        /\ tasks[t].log[i].rsp # tasks[t].log[j].rsp
        /\ tasks[t].iter[tasks[t].log[i].req] # tasks[t].iter[tasks[t].log[j].req]

\* C7: a resolution fails as an unsupported topology only when the trixels
\* of the assignment it resolves map to more than one TMS id.
C7_OnlyOnTwoTms ==
    \A t \in Tasks : UnsupportedTopology(t) => Cardinality(TmsIdsSeen(t)) > 1

\* C8: when two trixels of one assignment map to different TMS ids, the
\* resolution fails as an unsupported topology and the table holds no
\* entry that resolution has recorded.
C8_NothingRetained ==
    \A t \in Tasks :
        Done(t) /\ TwoTrixelsTwoTms(t) =>
            /\ tasks[t].exc = "NotImplementedError"
            /\ \A i \in Events(t, "store") :
                  \A j \in 1..Len(tms_lookup) :
                      tms_lookup[j].trixel_id # tasks[t].iter[tasks[t].log[i].req]

\* C9: sync_with_tms sends no create request when credentials are stored,
\* and no update request when the k of the station's detail is the
\* configured k.
C9_NoNeedlessRequest ==
    \A t \in Tasks :
        /\ \A i \in Events(t, "register") :
              /\ i > 1
              /\ tasks[t].log[i - 1].ev = "sync"
              /\ tasks[t].log[i - 1].req = 0
        /\ \A i \in Events(t, "update") :
              /\ i > 1
              /\ tasks[t].log[i - 1].ev = "detail"
              /\ tasks[t].log[i - 1].rsp # tasks[t].log[i].req

C9_Witness ==
    \E t \in Tasks :
        /\ Done(t)
        /\ tasks[t].exc = "none"
        /\ Events(t, "register") = {}
        /\ Events(t, "update") = {}
        /\ \E i \in Events(t, "detail") :
              /\ tasks[t].log[i].rsp = k
              /\ tasks[t].log[i - 1].ev = "sync"
              /\ tasks[t].log[i - 1].req # 0

\* C10: after a create request is answered with the requested k, the next
\* thing the call does is hand the configuration, with the credentials in
\* it, to the persistence callback; no request comes in between.
C10_PersistBeforeNextRequest ==
    \A t \in Tasks :
        \A i \in Events(t, "register") :
            tasks[t].log[i].rsp = tasks[t].log[i].req =>
                /\ i < Len(tasks[t].log)
                /\ tasks[t].log[i + 1].ev = "persist"
                /\ tasks[t].log[i + 1].req # 0
                /\ (i + 1 = Len(tasks[t].log) =>
                       /\ persisted.ms_config = tasks[t].log[i + 1].req
                       /\ ms_config = persisted.ms_config)

C10_Witness ==
    \E t \in Tasks :
        \E i \in Events(t, "register") :
            /\ tasks[t].log[i].rsp = tasks[t].log[i].req
            /\ i + 2 <= Len(tasks[t].log)
            /\ tasks[t].log[i + 2].ev = "detail"

\* The call on t is a delete whose request was answered with rsp.
DeleteAnswered(t, rsp) ==
    /\ Done(t)
    /\ tasks[t].op = "delete"
    /\ \E i \in Events(t, "delete") : tasks[t].log[i].rsp = rsp

\* The delete request failed: the call has raised, the credentials are
\* the ones the request was made with, the callback was not invoked and
\* Dead is not set.
DeleteFailedLeavesAll(t) ==
    DeleteAnswered(t, Failed) =>
        /\ tasks[t].result = "raised"
        /\ ms_config = tasks[t].token
        /\ ms_config # 0
        /\ Events(t, "persist") = {}
        /\ ~dead

\* The delete request succeeded: the credentials are cleared and the
\* cleared configuration was handed to the callback.
DeleteClearsCredentials(t) ==
    DeleteAnswered(t, 1) =>
        /\ ms_config = 0
        /\ persisted.ms_config = 0
        /\ \E i \in Events(t, "persist") : tasks[t].log[i].req = 0

\* C11, as the specification states it: when the delete request succeeds
\* the credentials are cleared, the cleared configuration is handed to the
\* persistence callback and Dead is set; when it fails the call raises
\* with the credentials unchanged, the callback not invoked and Dead not
\* set.
C11_Original ==
    \A t \in Tasks :
        /\ DeleteClearsCredentials(t)
        /\ DeleteAnswered(t, 1) => dead
        /\ DeleteFailedLeavesAll(t)

\* C11: when the delete request succeeds the credentials are cleared and
\* the cleared configuration is handed to the persistence callback; Dead
\* is set when the callback returns, and when the callback raises the call
\* raises and Dead is not set.  When the delete request fails the call
\* raises with the credentials unchanged, the callback not invoked and
\* Dead not set.
C11_DeleteEffects ==
    \A t \in Tasks :
        /\ DeleteClearsCredentials(t)
        /\ DeleteAnswered(t, 1) =>
              /\ dead <=> tasks[t].exc = "none"
              /\ tasks[t].exc = "none" => tasks[t].result = "None"
              /\ tasks[t].exc # "none" =>
                    tasks[t].exc = "PersistError" /\ tasks[t].result = "raised"
        /\ DeleteFailedLeavesAll(t)

C11_Witness ==
    \E t \in Tasks :
        /\ DeleteAnswered(t, 1)
        /\ tasks[t].exc = "none"
        /\ dead
        /\ ms_config = 0

\* C12: a delete call that meets no refusal of its delete request, and no
\* failure of the persistence callback, ends with Dead set, whatever the
\* state of the client it was made in.
C12_DeleteAlwaysSetsDead ==
    \A t \in Tasks :
        ( /\ Done(t)
          /\ tasks[t].op = "delete"
          /\ \A i \in Events(t, "delete") : tasks[t].log[i].rsp # Failed
          /\ \A i \in Events(t, "persist") : tasks[t].log[i].rsp # Failed )
        => dead /\ tasks[t].exc = "none"

Last(S) == CHOOSE i \in S : \A j \in S : j <= i

\* Before the entry at place j of the call's log, every query of the
\* negotiation was issued and answered OK, and the walk had come to its
\* end.
NegotiationOver(t, j) ==
    LET q == Events(t, "get_sensor_count")
        log == tasks[t].log
    IN  /\ q # {}
        /\ \A i \in q : i < j /\ log[i].rsp = 1
        /\ WalkEnds(TypesMeetingK(tasks[t].sc, log[Last(q)].req, k),
                    log[Last(q)].req)

\* Before the entry at place j of the call's log, every query of the
\* resolution and the ping were issued and answered OK.
ResolutionOver(t, j) ==
    LET log == tasks[t].log
    IN  /\ Events(t, "get_tms") # {}
        /\ Events(t, "ping") # {}
        /\ \A i \in Events(t, "get_tms") : i < j /\ log[i].rsp \in TmsIds
        /\ \A i \in Events(t, "ping") : i < j /\ log[i].rsp = 1

\* C13: in run, and in a set_location that re-runs the pipeline, no
\* get_tms or ping request is issued before every sensor-count query of
\* the negotiation has succeeded; in run no register, detail or update
\* request is issued before the resolution and its ping have succeeded.
C13_PipelineOrder ==
    \A t \in Tasks :
        \A j \in 1..Len(tasks[t].log) :
            /\ ( /\ tasks[t].op = "run" \/ Reruns(t, "set_location")
                 /\ tasks[t].log[j].ev \in {"get_tms", "ping"} )
               => NegotiationOver(t, j)
            /\ ( /\ tasks[t].op = "run"
                 /\ tasks[t].log[j].ev \in {"register", "detail", "update"} )
               => NegotiationOver(t, j) /\ ResolutionOver(t, j)

C13_Witness ==
    \E t \in Tasks :
        /\ tasks[t].op = "run"
        /\ Events(t, "update") # {}
        /\ Cardinality(Events(t, "get_sensor_count")) >= 2
        /\ Cardinality(Events(t, "get_tms")) >= 2

\* The call on t has ended on a failure of the persistence callback.
PersistFailed(t) == Done(t) /\ tasks[t].exc = "PersistError"

\* C18, as the specification states it: a failure of the persistence
\* callback during run, set_location, set_k or delete reaches the caller
\* of that call.
C18_Original ==
    \A t \in Tasks : PersistFailed(t) => tasks[t].result = "raised"

\* C18: a failure of the persistence callback during run or delete reaches
\* the caller of that call; during set_location or set_k it is caught, the
\* old location or k is restored and the call returns False.
C18_PersistFailure ==
    \A t \in Tasks :
        PersistFailed(t) =>
            /\ tasks[t].op \in {"run", "delete"} => tasks[t].result = "raised"
            /\ tasks[t].op = "set_location" =>
                  tasks[t].result = "False" /\ location = tasks[t].old_location
            /\ tasks[t].op = "set_k" =>
                  tasks[t].result = "False" /\ k = tasks[t].old_k

C18_Witness ==
    \E t \in Tasks :
        /\ PersistFailed(t)
        /\ tasks[t].op = "set_k"
        /\ tasks[t].rerun
        /\ tasks[t].arg_k # tasks[t].old_k

\* C17: after a set_location call made on a Ready, not Dead client fails
\* at the negotiation or at the resolution stage, the type-to-cell
\* assignment and the cell-to-authority table are the ones of before the
\* call.
C17_TablesUnchanged ==
    \A t \in Tasks :
        SetLocationFailedVetting(t) =>
            /\ trixel_lookup = tasks[t].trixel_lookup0
            /\ tms_lookup = tasks[t].tms_lookup0

\* C19: a set_k call made on a Ready, not Dead client issues no
\* sensor-count query and no get_tms query, leaves the type-to-cell
\* assignment as it was, and when it succeeds every update response of
\* the call has echoed the new k.
C19_SetKOnReady ==
    \A t \in Tasks :
        Reruns(t, "set_k") =>
            /\ Events(t, "get_sensor_count") = {}
            /\ Events(t, "get_tms") = {}
            /\ trixel_lookup = tasks[t].trixel_lookup0
            /\ (Done(t) /\ tasks[t].exc = "none") =>
                  /\ k = tasks[t].arg_k
                  /\ \A i \in Events(t, "update") :
                        tasks[t].log[i].rsp = tasks[t].arg_k

C19_Witness ==
    \E t \in Tasks :
        /\ Done(t)
        /\ Reruns(t, "set_k")
        /\ tasks[t].exc = "none"
        /\ tasks[t].arg_k # tasks[t].old_k
        /\ \E i \in Events(t, "update") : tasks[t].log[i].rsp = tasks[t].arg_k
        /\ \E ty \in TypeSet : get_level(trixel_lookup[ty]) > 0

\* The negotiation of the run call on t has succeeded: the call waits for
\* the answer to its first resolution request.
NegotiationSucceeded(t) ==
    /\ tasks[t].op = "run"
    /\ tasks[t].pc = "get_tms"
    /\ tasks[t].idx = 1

\* The depths the call on t has queried the sensor counts of.
Queried(t) ==
    {tasks[t].log[i].req : i \in Events(t, "get_sensor_count")}

\* The lookup service counts at least kreq sensors of the type at the
\* depth around loc.
Meets(loc, ty, depth, kreq) ==
    LET counts == sensor_counts[loc][ty]
        count == IF depth + 1 <= Len(counts.head) THEN counts.head[depth + 1]
                 ELSE counts.tail
    IN  count >= kreq

\* The depths at which no type meets kreq.
EmptyDepths(loc, kreq) ==
    {d \in 0..(NumLevels - 1) : \A ty \in TypeSet : ~Meets(loc, ty, d, kreq)}

Least(S) == CHOOSE i \in S : \A j \in S : i <= j

\* The depths to query: 0 up to and including the first depth at which no
\* type meets kreq, or every depth when there is none.
DepthsToQuery(loc, kreq) ==
    IF EmptyDepths(loc, kreq) = {} THEN 0..(NumLevels - 1)
    ELSE 0..Least(EmptyDepths(loc, kreq))

\* The greatest of the depths at which the type meets kreq, depth 0 when
\* there is none.
DeepestMeeting(loc, ty, depths, kreq) ==
    LET meeting == {d \in depths : Meets(loc, ty, d, kreq)}
    IN  IF meeting = {} THEN 0 ELSE Last(meeting)

\* C14: whatever the sensor counts and k, a negotiation that succeeds has
\* queried the depths 0 up to and including the first depth at which no
\* type meets k (all of 0..19 when there is none), and assigns to each type
\* the cell of the greatest queried depth whose count for the type is at
\* least k, the cell of depth 0 when no queried depth meets k.
C14_NegotiatedCells ==
    \A t \in Tasks :
        NegotiationSucceeded(t) =>
            /\ Queried(t) = DepthsToQuery(tasks[t].sc, k)
            /\ \A ty \in TypeSet :
                  trixel_lookup[ty] =
                      get_htm_id(tasks[t].sc,
                                 DeepestMeeting(tasks[t].sc, ty, Queried(t), k))

\* A walk that ended before the last level, with the two types assigned
\* cells of different depths, one of them below a depth whose count for
\* the type does not meet k.
C14_Witness ==
    \E t \in Tasks :
        /\ NegotiationSucceeded(t)
        /\ Cardinality(Queried(t)) \in 3..(NumLevels - 1)
        /\ \E ty \in TypeSet :
              /\ get_level(trixel_lookup[ty]) >= 1
              /\ \E d \in 0..get_level(trixel_lookup[ty]) :
                    ~Meets(tasks[t].sc, ty, d, k)
        /\ \E ty1, ty2 \in TypeSet : trixel_lookup[ty1] # trixel_lookup[ty2]

\* C15: for the location and the sensor counts of the negotiation that has
\* succeeded under k, and every type, the cell negotiated under a smaller
\* or equal requirement is at least as deep, and the cell negotiated under
\* a greater or equal requirement is at most as deep.
C15_DeeperForSmallerK ==
    \A t \in Tasks :
        NegotiationSucceeded(t) =>
            \A kk \in Ks, ty \in TypeSet :
                LET theirs == get_level(Negotiated(tasks[t].sc, kk)[ty])
                    mine == get_level(trixel_lookup[ty])
                IN  /\ kk <= k => theirs >= mine
                    /\ kk >= k => theirs <= mine

C15_Witness ==
    \E t \in Tasks :
        /\ NegotiationSucceeded(t)
        /\ \E kk \in Ks, ty \in TypeSet :
              /\ kk < k
              /\ get_level(Negotiated(tasks[t].sc, kk)[ty])
                     > get_level(trixel_lookup[ty]) + 1

\* C16: within one negotiation, once a sensor-count query is answered OK
\* for a depth at which no type meets k, no sensor-count query for a deeper
\* depth is issued.
C16_NoQueryBelowEmpty ==
    \A t \in Tasks :
        \A i, j \in Events(t, "get_sensor_count") :
            ( /\ tasks[t].log[i].rsp = 1
              /\ \A ty \in TypeSet :
                    ~Meets(tasks[t].sc, ty, tasks[t].log[i].req, k) )
            => tasks[t].log[j].req <= tasks[t].log[i].req

C16_Witness ==
    \E t \in Tasks :
        /\ NegotiationSucceeded(t)
        /\ \E i \in Events(t, "get_sensor_count") :
              /\ tasks[t].log[i].req \in 1..(NumLevels - 2)
              /\ \A ty \in TypeSet :
                    ~Meets(tasks[t].sc, ty, tasks[t].log[i].req, k)
              /\ \E d \in (tasks[t].log[i].req + 1)..(NumLevels - 1),
                    ty \in TypeSet : Meets(tasks[t].sc, ty, d, k)

\* What a Client object shows: is_ready and is_dead return self._ready and
\* self._dead, and the table is self._tms_lookup; none of the three is
\* bound on the object, so each is the attribute of the class.
is_ready(c) == ready
is_dead(c) == dead
tms_lookup_of(c) == tms_lookup

\* The step is one of a call made on the client c.
StepOf(c) ==
    \E t \in Tasks :
        /\ tasks'[t] # tasks[t]
        /\ tasks'[t].op # "idle"
        /\ tasks'[t].inst = c

\* C20: no step of a call made on one Client object changes the Ready
\* signal, the Dead signal or the cell-to-authority table that the other
\* Client object of the process shows.
C20_Independent ==
    [][\A c, d \in Clients :
         (c # d /\ StepOf(c)) =>
             /\ is_ready(d)' = is_ready(d)
             /\ is_dead(d)' = is_dead(d)
             /\ tms_lookup_of(d)' = tms_lookup_of(d)]_vars

====
